---- MODULE Spec2Model ----
(***************************************************************************)
(* Sports team management canister: a StableBTreeMap of Team records keyed *)
(* by team id, with seven public operations (createTeam, getTeam,          *)
(* updateTeam, deleteTeam, getAllTeams, addPlayerToTeam,                    *)
(* deletePlayerToTeam / deletePlayerFromTeam).                             *)
(*                                                                         *)
(* The repository holds two revisions of the service: src/unnamed/part_000 *)
(* and src/src/index.ts.  The variable impl says which revision is         *)
(* deployed; it is chosen in Init and never changes.  Each revision has    *)
(* its own action per operation; the actions of src/src/index.ts carry the *)
(* prefix index_.                                                          *)
(*                                                                         *)
(* Every canister call runs to completion before the next one starts, so   *)
(* each operation is one atomic action.                                    *)
(***************************************************************************)
EXTENDS Integers, Sequences, FiniteSets, TLC

(* ------------------------------ bounds --------------------------------- *)

\* number of distinct ids the id generator (uuidv4) can return
NumIds == 2
\* number of caller identities (principals)
NumPrincipals == 2
\* largest value of the canister clock ic.time()
MaxTime == 1
\* the store's maximum value size, in units of one roster entry that has no
\* personal records
Capacity == 2
\* largest number of colliding ids the generator returns in one createTeam
MaxRetries == 1
\* the longest roster the roster-filter specification starts from
MaxRosterLen == 3

(* --------------------------- value universes --------------------------- *)

Ids == 1..NumIds
Principals == 1..NumPrincipals

TeamNames == {"Hawks", "Lions"}
SportTypes == {"soccer"}

\* type Statistics, type Player
NoRecords == [goalsScored |-> 0, assists |-> 0, personalRecords |-> <<>>]
AlexStats == [goalsScored |-> 3, assists |-> 1, personalRecords |-> <<"hat-trick">>]
Sam == [name |-> "Sam", position |-> "keeper", statistics |-> NoRecords]
Alex == [name |-> "Alex", position |-> "striker", statistics |-> AlexStats]
Players == {Sam, Alex}
\* two more players for the specifications that need longer rosters: another
\* name, and the same name as Sam's with different content
Kim == [name |-> "Kim", position |-> "defender", statistics |-> NoRecords]
SamStriker == [name |-> "Sam", position |-> "striker", statistics |-> NoRecords]
RosterPlayers == Players \cup {Kim, SamStriker}
Rosters == UNION { [1..n -> RosterPlayers] : n \in 0..MaxRosterLen }
ThreadPlayers == {Sam, Kim, Alex}
\* the calls in flight
Threads == {1, 2}
PlayerNames == {"Sam", "Alex"}
RosterNames == PlayerNames \cup {"Kim"}

\* a roster one entry longer than a stored record can hold
Overfull == [i \in 1..(Capacity + 1) |-> Sam]

\* rosters a caller passes to updateTeam
RosterInputs == { <<>>, <<Sam, Sam>>, <<Alex>>, Overfull }

\* Opt<nat64>: Opt.None / Opt.Some(t); null in src/src/index.ts
None == {}
Some(t) == {t}

\* an argument as JavaScript receives it: missing (undefined/null) or a value
Absent(default) == [tag |-> "absent", v |-> default]
Val(x) == [tag |-> "value", v |-> x]

\* type TeamPayload
Payload(name, sportType, roster) ==
    [name |-> name, sportType |-> sportType, roster |-> roster]

\* payloads that pass validation
ValidPayloads ==
    { Payload(Val(n), Val(s), Val(<<>>)) : n \in TeamNames, s \in SportTypes }
    \cup { Payload(Val("Hawks"), Val("soccer"), Val(<<Alex>>)),
           Payload(Val("Lions"), Val("soccer"), Val(Overfull)) }

\* payloads with one field missing or empty (an empty roster is in ValidPayloads)
BrokenPayloads ==
    { Payload(n, Val("soccer"), Val(<<>>)) : n \in {Absent(""), Val("")} }
    \cup { Payload(Val("Hawks"), s, Val(<<>>)) : s \in {Absent(""), Val("")} }
    \cup { Payload(Val("Hawks"), Val("soccer"), Absent(<<>>)) }

Payloads == ValidPayloads \cup BrokenPayloads

\* !x of JavaScript for a string argument: undefined, null and "" are falsy
FalsyString(a) == a.tag = "absent" \/ a.v = ""
\* !x of JavaScript for an array argument: only undefined and null are falsy
FalsyArray(a) == a.tag = "absent"

(* ------------------------------- state --------------------------------- *)

VARIABLES
    impl,         \* the deployed revision: "part_000" or "index"
    teamStorage,  \* the StableBTreeMap: a function from the stored ids to Teams
    clock,        \* ic.time()
    call,         \* the last call: operation, caller and arguments
    found,        \* what the last call's teamStorage.get returned (a set of <= 1 Team)
    result,       \* what the last call returned
    reads,        \* store reads (get, values) made by the last call
    writes,       \* store writes (insert, remove) made by the last call
    threads,      \* the calls in flight: where each is, what it read, what it returned
    exclusive     \* TRUE: a call runs to completion before the next one starts

vars == <<impl, teamStorage, clock, call, found, result, reads, writes,
          threads, exclusive>>

Impls == {"part_000", "index"}

(* ------------------------- the ordered store --------------------------- *)

\* teamStorage.get(key)
get(store, key) == IF key \in DOMAIN store THEN {store[key]} ELSE {}

\* the serialized size of a roster entry: it grows with its personal records
PlayerSize(player) == 1 + Len(player.statistics.personalRecords)

\* the serialized size of a record: it grows with its roster
RECURSIVE RosterSize(_)
RosterSize(roster) ==
    IF roster = <<>> THEN 0
    ELSE PlayerSize(Head(roster)) + RosterSize(Tail(roster))

ValueSize(team) == RosterSize(team.roster)

\* teamStorage.insert(key, value) fails when the value exceeds the maximum size
InsertFails(team) == ValueSize(team) > Capacity

\* an insert that leaves a key that is already stored as it is
insert_ifAbsent(store, key, team) ==
    [k \in DOMAIN store \cup {key} |-> IF k \in DOMAIN store THEN store[k] ELSE team]

\* teamStorage.insert(key, value): insert or replace
insert(store, key, team) ==
    [k \in DOMAIN store \cup {key} |-> IF k = key THEN team ELSE store[k]]

\* teamStorage.remove(key)
remove(store, key) == [k \in DOMAIN store \ {key} |-> store[k]]

\* the stored records in descending key order
RECURSIVE ValuesOf_descending(_, _)
ValuesOf_descending(store, keys) ==
    IF keys = {} THEN <<>>
    ELSE LET greatest == CHOOSE k \in keys : \A j \in keys : k >= j
         IN  <<store[greatest]>> \o ValuesOf_descending(store, keys \ {greatest})

values_descending(store) == ValuesOf_descending(store, DOMAIN store)

\* teamStorage.values(): the stored records in ascending key order
RECURSIVE ValuesOf(_, _)
ValuesOf(store, keys) ==
    IF keys = {} THEN <<>>
    ELSE LET least == CHOOSE k \in keys : \A j \in keys : k <= j
         IN  <<store[least]>> \o ValuesOf(store, keys \ {least})

values(store) == ValuesOf(store, DOMAIN store)

(* ------------------------------ results -------------------------------- *)

\* Result.Ok(team)
Ok(team) == [kind |-> "Ok", err |-> "", value |-> {team}, list |-> <<>>]
\* Result.Ok() of deleteTeam in src/src/index.ts
OkVoid == [kind |-> "Ok", err |-> "", value |-> {}, list |-> <<>>]
\* Result.Ok(teams) of getAllTeams
OkList(teams) == [kind |-> "Ok", err |-> "", value |-> {}, list |-> teams]
\* Result.Err(message); the message is recorded by the error kind it stands for
Err(errKind) == [kind |-> "Err", err |-> errKind, value |-> {}, list |-> <<>>]
\* an exception that leaves the operation
Thrown == [kind |-> "Thrown", err |-> "", value |-> {}, list |-> <<>>]

NoCall ==
    [op |-> "none", caller |-> 0, id |-> 0,
     payload |-> Payload(Absent(""), Absent(""), Absent(<<>>)),
     roster |-> <<>>, player |-> {}, playerName |-> ""]

Call(op, caller, id) == [NoCall EXCEPT !.op = op, !.caller = caller, !.id = id]

(* ------------------------------ helpers -------------------------------- *)

\* Principal.toString(): the textual encoding of a principal
toString(p) == <<"principal", p>>

\* the owner check left out
NotOwner_skipped(team, caller) == FALSE

\* team.owner.toString() !== ic.caller().toString()
NotOwner(team, caller) == toString(team.owner) # toString(caller)

\* the validation with the sportType test left out
InvalidPayload_noSportType(payload) ==
    FalsyString(payload.name) \/ FalsyArray(payload.roster)

\* !payload.name || !payload.sportType || !payload.roster
InvalidPayload(payload) ==
    FalsyString(payload.name) \/ FalsyString(payload.sportType) \/ FalsyArray(payload.roster)

\* the uniqueness scan comparing ids instead of names: it never finds a team
existingTeam_never(store, name) == {}

\* teamStorage.values().find((team) => team.name === payload.name):
\* the first stored team of that name, if any
existingTeam(store, name) ==
    LET all == values(store)
        hits == { i \in 1..Len(all) : all[i].name = name }
    IN  IF hits = {} THEN {}
        ELSE { all[CHOOSE i \in hits : \A j \in hits : i <= j] }

\* const team: Team = { id, owner: ic.caller(), ..., updatedAt: Opt.None }
NewTeam(id, caller, name, sportType, roster, now) ==
    [id |-> id, owner |-> caller, name |-> name, sportType |-> sportType,
     roster |-> roster, createdAt |-> now, updatedAt |-> None]

\* updateTeam stamping createdAt as well as updatedAt
WithRoster_stampsCreatedAt(team, roster, now) ==
    [team EXCEPT !.roster = roster, !.updatedAt = Some(now), !.createdAt = now]

\* team.roster = roster; team.updatedAt = Opt.Some(ic.time())
WithRoster(team, roster, now) ==
    [team EXCEPT !.roster = roster, !.updatedAt = Some(now)]

\* team.roster = roster; team.updatedAt = null     (src/src/index.ts)
index_WithRoster(team, roster) ==
    [team EXCEPT !.roster = roster, !.updatedAt = None]

\* const newPlayer: Player = { name: ..., position: ..., statistics: {...} }
newPlayer(player) ==
    [name |-> player.name, position |-> player.position,
     statistics |->
        [goalsScored |-> player.statistics.goalsScored,
         assists |-> player.statistics.assists,
         personalRecords |-> player.statistics.personalRecords]]

\* the roster replaced by the new player alone: [newPlayer] for [...team.roster, newPlayer]
WithPlayer_aloneInRoster(team, player, now) ==
    [team EXCEPT !.roster = <<player>>, !.updatedAt = Some(now)]

\* { ...team, roster: [...team.roster, newPlayer], updatedAt: Opt.Some(ic.time()) }
WithPlayer(team, player, now) ==
    [team EXCEPT !.roster = Append(team.roster, newPlayer(player)),
                 !.updatedAt = Some(now)]

\* { ...team, roster: [...team.roster, newPlayer], updatedAt: null }   (src/src/index.ts)
index_WithPlayer(team, player) ==
    [team EXCEPT !.roster = Append(team.roster, newPlayer(player)),
                 !.updatedAt = None]

\* team.roster.findIndex((player) => player.name === playerName): 0-based, -1 if none
playerIndex(roster, playerName) ==
    LET hits == { i \in 1..Len(roster) : roster[i].name = playerName }
    IN  IF hits = {} THEN -1
        ELSE (CHOOSE i \in hits : \A j \in hits : i <= j) - 1

\* the filter with its test inverted: === for !==
KeepOthers_inverted(player, playerName) == player.name = playerName

\* team.roster.filter((player) => player.name !== playerName)
KeepOthers(player, playerName) == player.name # playerName

\* the roster with only the entry at playerIndex removed (splice, not filter)
updatedRoster_firstOnly(roster, playerName) ==
    LET at == playerIndex(roster, playerName) + 1
    IN  [i \in 1..(Len(roster) - 1) |-> IF i < at THEN roster[i] ELSE roster[i + 1]]

updatedRoster(roster, playerName) ==
    LET Keep(player) == KeepOthers(player, playerName)
    IN  SelectSeq(roster, Keep)

\* { ...team, roster: updatedRoster, updatedAt: Opt.Some(ic.time()) }
WithoutPlayer(team, playerName, now) ==
    [team EXCEPT !.roster = updatedRoster(team.roster, playerName),
                 !.updatedAt = Some(now)]

\* { ...team, roster: updatedRoster, updatedAt: null }   (src/src/index.ts)
index_WithoutPlayer(team, playerName) ==
    [team EXCEPT !.roster = updatedRoster(team.roster, playerName),
                 !.updatedAt = None]

\* the end of a call: the store it leaves, what it read and what it returns
Return(c, f, r, rd, wr, store) ==
    /\ teamStorage' = store
    /\ call' = c
    /\ found' = f
    /\ result' = r
    /\ reads' = rd
    /\ writes' = wr
    /\ UNCHANGED <<impl, clock, threads, exclusive>>

TheTeam(f) == CHOOSE t \in f : TRUE

\* a call that has not started
Idle == [pc |-> "idle", call |-> NoCall, seen |-> {}, result |-> OkVoid]

Init ==
    /\ impl \in Impls
    /\ teamStorage = [k \in {} |-> 0]
    /\ clock = 0
    /\ call = NoCall
    /\ found = {}
    /\ result = OkVoid
    /\ reads = 0
    /\ writes = 0
    /\ threads = [t \in Threads |-> Idle]
    /\ exclusive = TRUE

\* the canister clock advances between calls
Tick ==
    /\ clock < MaxTime
    /\ clock' = clock + 1
    /\ UNCHANGED <<impl, teamStorage, call, found, result, reads, writes,
                   threads, exclusive>>

(* ----------------------- src/unnamed/part_000 -------------------------- *)

\* let id = uuidv4(): any id, one that is stored included
uuidv4 == Ids

createTeam(caller, payload) ==
    LET c == [Call("createTeam", caller, 0) EXCEPT !.payload = payload]
    IN  /\ impl = "part_000"
        /\ IF InvalidPayload(payload)
             THEN Return(c, {}, Err("InvalidInput"), 0, 0, teamStorage)
           ELSE IF existingTeam(teamStorage, payload.name.v) # {}
             THEN Return(c, {}, Err("DuplicateName"), 1, 0, teamStorage)
           ELSE \E id \in uuidv4 :
                LET team == NewTeam(id, caller, payload.name.v, payload.sportType.v,
                                    payload.roster.v, clock)
                IN  IF InsertFails(team)
                      \* the insert throws inside try; the catch returns an error
                      THEN Return(c, {}, Err("StorageError"), 1, 1, teamStorage)
                    ELSE Return(c, {}, Ok(team), 1, 1,
                                insert(teamStorage, team.id, team))

\* getTeam answering from the first stored record, whatever the id
getTeam_firstRecord(id) ==
    LET c == Call("getTeam", 0, id)
        all == values(teamStorage)
        f == IF all = <<>> THEN {} ELSE {all[1]}
    IN  /\ impl = "part_000"
        /\ IF f = {}
             THEN Return(c, f, Err("NotFound"), 1, 0, teamStorage)
           ELSE Return(c, f, Ok(TheTeam(f)), 1, 0, teamStorage)

getTeam(id) ==
    LET c == Call("getTeam", 0, id)
        f == get(teamStorage, id)
    IN  /\ impl = "part_000"
        /\ IF f = {}
             THEN Return(c, f, Err("NotFound"), 1, 0, teamStorage)
           ELSE Return(c, f, Ok(TheTeam(f)), 1, 0, teamStorage)

updateTeam(caller, id, roster) ==
    LET c == [Call("updateTeam", caller, id) EXCEPT !.roster = roster]
        f == get(teamStorage, id)
        team == WithRoster(TheTeam(f), roster, clock)
    IN  /\ impl = "part_000"
        /\ IF f = {}
             THEN Return(c, f, Err("NotFound"), 1, 0, teamStorage)
           ELSE IF NotOwner(TheTeam(f), caller)
             THEN Return(c, f, Err("Unauthorized"), 1, 0, teamStorage)
           ELSE IF InsertFails(team)
             \* no try around the insert: the exception leaves updateTeam
             THEN Return(c, f, Thrown, 1, 1, teamStorage)
           ELSE Return(c, f, Ok(team), 1, 1, insert(teamStorage, team.id, team))

deleteTeam(caller, id) ==
    LET c == Call("deleteTeam", caller, id)
        f == get(teamStorage, id)
    IN  /\ impl = "part_000"
        /\ IF f = {}
             THEN Return(c, f, Err("NotFound"), 1, 0, teamStorage)
           ELSE IF NotOwner(TheTeam(f), caller)
             THEN Return(c, f, Err("Unauthorized"), 1, 0, teamStorage)
           ELSE Return(c, f, Ok(TheTeam(f)), 1, 1, remove(teamStorage, id))

getAllTeams ==
    /\ impl = "part_000"
    /\ Return(Call("getAllTeams", 0, 0), {}, OkList(values(teamStorage)),
              1, 0, teamStorage)

addPlayerToTeam(caller, id, player) ==
    LET c == [Call("addPlayerToTeam", caller, id) EXCEPT !.player = {player}]
        f == get(teamStorage, id)
        updatedTeam == WithPlayer(TheTeam(f), player, clock)
    IN  /\ impl = "part_000"
        /\ IF f = {}
             THEN Return(c, f, Err("NotFound"), 1, 0, teamStorage)
           ELSE IF NotOwner(TheTeam(f), caller)
             THEN Return(c, f, Err("Unauthorized"), 1, 0, teamStorage)
           ELSE IF InsertFails(updatedTeam)
             THEN Return(c, f, Thrown, 1, 1, teamStorage)
           ELSE Return(c, f, Ok(updatedTeam), 1, 1,
                       insert(teamStorage, TheTeam(f).id, updatedTeam))

\* deletePlayerToTeam looking for the player before it checks the caller
deletePlayerToTeam_playerFirst(caller, id, playerName) ==
    LET c == [Call("deletePlayerToTeam", caller, id) EXCEPT !.playerName = playerName]
        f == get(teamStorage, id)
        updatedTeam == WithoutPlayer(TheTeam(f), playerName, clock)
    IN  /\ impl = "part_000"
        /\ IF f = {}
             THEN Return(c, f, Err("NotFound"), 1, 0, teamStorage)
           ELSE IF playerIndex(TheTeam(f).roster, playerName) = -1
             THEN Return(c, f, Err("PlayerNotFound"), 1, 0, teamStorage)
           ELSE IF NotOwner(TheTeam(f), caller)
             THEN Return(c, f, Err("Unauthorized"), 1, 0, teamStorage)
           ELSE Return(c, f, Ok(updatedTeam), 1, 1,
                       insert(teamStorage, TheTeam(f).id, updatedTeam))

\* deletePlayerToTeam writing the new updatedAt before it looks for the player
deletePlayerToTeam_writeFirst(caller, id, playerName) ==
    LET c == [Call("deletePlayerToTeam", caller, id) EXCEPT !.playerName = playerName]
        f == get(teamStorage, id)
        updatedTeam == WithoutPlayer(TheTeam(f), playerName, clock)
    IN  /\ impl = "part_000"
        /\ IF f = {}
             THEN Return(c, f, Err("NotFound"), 1, 0, teamStorage)
           ELSE IF NotOwner(TheTeam(f), caller)
             THEN Return(c, f, Err("Unauthorized"), 1, 0, teamStorage)
           ELSE IF playerIndex(TheTeam(f).roster, playerName) = -1
             THEN Return(c, f, Err("PlayerNotFound"), 1, 1,
                         insert(teamStorage, TheTeam(f).id, updatedTeam))
           ELSE Return(c, f, Ok(updatedTeam), 1, 1,
                       insert(teamStorage, TheTeam(f).id, updatedTeam))

deletePlayerToTeam(caller, id, playerName) ==
    LET c == [Call("deletePlayerToTeam", caller, id) EXCEPT !.playerName = playerName]
        f == get(teamStorage, id)
        updatedTeam == WithoutPlayer(TheTeam(f), playerName, clock)
    IN  /\ impl = "part_000"
        /\ IF f = {}
             THEN Return(c, f, Err("NotFound"), 1, 0, teamStorage)
           ELSE IF NotOwner(TheTeam(f), caller)
             THEN Return(c, f, Err("Unauthorized"), 1, 0, teamStorage)
           ELSE IF playerIndex(TheTeam(f).roster, playerName) = -1
             THEN Return(c, f, Err("PlayerNotFound"), 1, 0, teamStorage)
           ELSE IF InsertFails(updatedTeam)
             THEN Return(c, f, Thrown, 1, 1, teamStorage)
           ELSE Return(c, f, Ok(updatedTeam), 1, 1,
                       insert(teamStorage, TheTeam(f).id, updatedTeam))

(* -------------------------- src/src/index.ts --------------------------- *)

\* let id = uuidv4(); while (teamStorage.get(id)) { id = uuidv4(); }
\* The loop draws again while the drawn id is stored (get is taken to yield a
\* falsy value for a key that is not stored): `retries` draws hit a stored
\* id, each costing one get, and the last draw is an id that is not stored.
FreshIds(store) == uuidv4 \ DOMAIN store

RetryCounts(store) == IF DOMAIN store = {} THEN {0} ELSE 0..MaxRetries

index_createTeam(caller, payload) ==
    LET c == [Call("createTeam", caller, 0) EXCEPT !.payload = payload]
    IN  /\ impl = "index"
        /\ IF InvalidPayload(payload)
             THEN Return(c, {}, Err("InvalidInput"), 0, 0, teamStorage)
           ELSE IF existingTeam(teamStorage, payload.name.v) # {}
             THEN Return(c, {}, Err("DuplicateName"), 1, 0, teamStorage)
           ELSE \E id \in FreshIds(teamStorage), retries \in RetryCounts(teamStorage) :
                LET team == NewTeam(id, caller, payload.name.v, payload.sportType.v,
                                    payload.roster.v, clock)
                IN  IF InsertFails(team)
                      THEN Return(c, {}, Err("StorageError"), retries + 2, 1, teamStorage)
                    ELSE Return(c, {}, Ok(team), retries + 2, 1,
                                insert(teamStorage, team.id, team))

index_getTeam(id) ==
    LET c == Call("getTeam", 0, id)
        f == get(teamStorage, id)
    IN  /\ impl = "index"
        /\ IF f = {}
             THEN Return(c, f, Err("NotFound"), 1, 0, teamStorage)
           ELSE Return(c, f, Ok(TheTeam(f)), 1, 0, teamStorage)

index_updateTeam(caller, id, roster) ==
    LET c == [Call("updateTeam", caller, id) EXCEPT !.roster = roster]
        f == get(teamStorage, id)
        team == index_WithRoster(TheTeam(f), roster)
    IN  /\ impl = "index"
        /\ IF f = {}
             THEN Return(c, f, Err("NotFound"), 1, 0, teamStorage)
           ELSE IF NotOwner(TheTeam(f), caller)
             THEN Return(c, f, Err("Unauthorized"), 1, 0, teamStorage)
           ELSE IF InsertFails(team)
             THEN Return(c, f, Thrown, 1, 1, teamStorage)
           ELSE Return(c, f, Ok(team), 1, 1, insert(teamStorage, team.id, team))

index_deleteTeam(caller, id) ==
    LET c == Call("deleteTeam", caller, id)
        f == get(teamStorage, id)
    IN  /\ impl = "index"
        /\ IF f = {}
             THEN Return(c, f, Err("NotFound"), 1, 0, teamStorage)
           ELSE IF NotOwner(TheTeam(f), caller)
             THEN Return(c, f, Err("Unauthorized"), 1, 0, teamStorage)
           \* Result<void, string>: Result.Ok() carries no team
           ELSE Return(c, f, OkVoid, 1, 1, remove(teamStorage, id))

index_getAllTeams ==
    /\ impl = "index"
    /\ Return(Call("getAllTeams", 0, 0), {}, OkList(values(teamStorage)),
              1, 0, teamStorage)

index_addPlayerToTeam(caller, id, player) ==
    LET c == [Call("addPlayerToTeam", caller, id) EXCEPT !.player = {player}]
        f == get(teamStorage, id)
        updatedTeam == index_WithPlayer(TheTeam(f), player)
    IN  /\ impl = "index"
        /\ IF f = {}
             THEN Return(c, f, Err("NotFound"), 1, 0, teamStorage)
           ELSE IF NotOwner(TheTeam(f), caller)
             THEN Return(c, f, Err("Unauthorized"), 1, 0, teamStorage)
           ELSE IF InsertFails(updatedTeam)
             THEN Return(c, f, Thrown, 1, 1, teamStorage)
           ELSE Return(c, f, Ok(updatedTeam), 1, 1,
                       insert(teamStorage, TheTeam(f).id, updatedTeam))

index_deletePlayerFromTeam(caller, id, playerName) ==
    LET c == [Call("deletePlayerToTeam", caller, id) EXCEPT !.playerName = playerName]
        f == get(teamStorage, id)
        updatedTeam == index_WithoutPlayer(TheTeam(f), playerName)
    IN  /\ impl = "index"
        /\ IF f = {}
             THEN Return(c, f, Err("NotFound"), 1, 0, teamStorage)
           ELSE IF NotOwner(TheTeam(f), caller)
             THEN Return(c, f, Err("Unauthorized"), 1, 0, teamStorage)
           ELSE IF playerIndex(TheTeam(f).roster, playerName) = -1
             THEN Return(c, f, Err("PlayerNotFound"), 1, 0, teamStorage)
           ELSE IF InsertFails(updatedTeam)
             THEN Return(c, f, Thrown, 1, 1, teamStorage)
           ELSE Return(c, f, Ok(updatedTeam), 1, 1,
                       insert(teamStorage, TheTeam(f).id, updatedTeam))

(* --------------------------- specification ----------------------------- *)

Next ==
    \/ Tick
    \/ \E caller \in Principals, payload \in Payloads : createTeam(caller, payload)
    \/ \E id \in Ids : getTeam(id)
    \/ \E caller \in Principals, id \in Ids, roster \in RosterInputs :
            updateTeam(caller, id, roster)
    \/ \E caller \in Principals, id \in Ids : deleteTeam(caller, id)
    \/ getAllTeams
    \/ \E caller \in Principals, id \in Ids, player \in Players :
            addPlayerToTeam(caller, id, player)
    \/ \E caller \in Principals, id \in Ids, playerName \in PlayerNames :
            deletePlayerToTeam(caller, id, playerName)
    \/ \E caller \in Principals, payload \in Payloads :
            index_createTeam(caller, payload)
    \/ \E id \in Ids : index_getTeam(id)
    \/ \E caller \in Principals, id \in Ids, roster \in RosterInputs :
            index_updateTeam(caller, id, roster)
    \/ \E caller \in Principals, id \in Ids : index_deleteTeam(caller, id)
    \/ index_getAllTeams
    \/ \E caller \in Principals, id \in Ids, player \in Players :
            index_addPlayerToTeam(caller, id, player)
    \/ \E caller \in Principals, id \in Ids, playerName \in PlayerNames :
            index_deletePlayerFromTeam(caller, id, playerName)

Spec == Init /\ [][Next]_vars

(* ------------- the roster filter of deletePlayerToTeam alone ------------ *)

\* a looked-up team whose roster is any sequence of up to MaxRosterLen players
RosterInit ==
    /\ impl \in Impls
    /\ teamStorage = [k \in {} |-> 0]
    /\ clock = 1
    /\ call = NoCall
    /\ \E roster \in Rosters : found = {NewTeam(1, 1, "Hawks", "soccer", roster, 0)}
    /\ result = OkVoid
    /\ reads = 0
    /\ writes = 0
    /\ threads = [t \in Threads |-> Idle]
    /\ exclusive = TRUE

\* deletePlayerToTeam from findIndex to updatedTeam, on the looked-up team and
\* for its owner: PlayerNotFound when no entry has the name, else the team with
\* the filtered roster
filterRoster(playerName) ==
    LET team == TheTeam(found)
        c == [Call("deletePlayerToTeam", team.owner, team.id)
                EXCEPT !.playerName = playerName]
    IN  /\ call' = c
        /\ result' = IF playerIndex(team.roster, playerName) = -1
                       THEN Err("PlayerNotFound")
                     ELSE IF impl = "part_000"
                       THEN Ok(WithoutPlayer(team, playerName, clock))
                     ELSE Ok(index_WithoutPlayer(team, playerName))
        /\ UNCHANGED <<impl, teamStorage, clock, found, reads, writes,
                       threads, exclusive>>

RosterNext == \E playerName \in RosterNames : filterRoster(playerName)

RosterSpec == RosterInit /\ [][RosterNext]_vars

(* ------ src/unnamed/part_000 with calls whose steps may interleave ------ *)

\* one stored team, and two calls about to start; the calls either run one
\* after the other or with the store read and the store write as separate steps
ThreadInit ==
    /\ impl = "part_000"
    /\ teamStorage = insert([k \in {} |-> 0], 1, NewTeam(1, 1, "Hawks", "soccer", <<>>, 0))
    /\ clock = 1
    /\ call = NoCall
    /\ found = {}
    /\ result = OkVoid
    /\ reads = 0
    /\ writes = 0
    /\ threads = [t \in Threads |-> Idle]
    /\ exclusive \in BOOLEAN

\* a call may start: under exclusion, only when no call is between its read
\* and its write
CanEnter == exclusive => \A u \in Threads : threads[u].pc # "read"

Done(c, f, r) == [pc |-> "done", call |-> c, seen |-> f, result |-> r]

ThreadFrame == UNCHANGED <<impl, clock, call, found, result, reads, writes, exclusive>>

\* createTeam up to and including teamStorage.values().find(...)
createTeam_find(t, caller, payload) ==
    LET c == [Call("createTeam", caller, 0) EXCEPT !.payload = payload]
    IN  /\ threads[t].pc = "idle"
        /\ CanEnter
        /\ threads' = [threads EXCEPT ![t] =
              IF InvalidPayload(payload)
                THEN Done(c, {}, Err("InvalidInput"))
              ELSE [pc |-> "read", call |-> c,
                    seen |-> existingTeam(teamStorage, payload.name.v),
                    result |-> OkVoid]]
        /\ UNCHANGED teamStorage
        /\ ThreadFrame

\* createTeam from the test of existingTeam to the return
createTeam_insert(t) ==
    LET c == threads[t].call
    IN  /\ threads[t].pc = "read"
        /\ c.op = "createTeam"
        /\ IF threads[t].seen # {}
             THEN /\ threads' = [threads EXCEPT ![t] = Done(c, threads[t].seen, Err("DuplicateName"))]
                  /\ UNCHANGED teamStorage
           ELSE \E id \in uuidv4 :
                LET team == NewTeam(id, c.caller, c.payload.name.v, c.payload.sportType.v,
                                    c.payload.roster.v, clock)
                IN  IF InsertFails(team)
                      THEN /\ threads' = [threads EXCEPT ![t] = Done(c, {}, Err("StorageError"))]
                           /\ UNCHANGED teamStorage
                    ELSE /\ threads' = [threads EXCEPT ![t] = Done(c, {}, Ok(team))]
                         /\ teamStorage' = insert(teamStorage, team.id, team)
        /\ ThreadFrame

\* addPlayerToTeam up to and including teamStorage.get(payload.teamId)
addPlayerToTeam_get(t, caller, id, player) ==
    LET c == [Call("addPlayerToTeam", caller, id) EXCEPT !.player = {player}]
    IN  /\ threads[t].pc = "idle"
        /\ CanEnter
        /\ threads' = [threads EXCEPT ![t] =
              [pc |-> "read", call |-> c, seen |-> get(teamStorage, id), result |-> OkVoid]]
        /\ UNCHANGED teamStorage
        /\ ThreadFrame

\* addPlayerToTeam from the match on what get returned to the return
addPlayerToTeam_insert(t) ==
    LET c == threads[t].call
        f == threads[t].seen
        new == WithPlayer(TheTeam(f), TheTeam(c.player), clock)
    IN  /\ threads[t].pc = "read"
        /\ c.op = "addPlayerToTeam"
        /\ IF f = {}
             THEN /\ threads' = [threads EXCEPT ![t] = Done(c, f, Err("NotFound"))]
                  /\ UNCHANGED teamStorage
           ELSE IF NotOwner(TheTeam(f), c.caller)
             THEN /\ threads' = [threads EXCEPT ![t] = Done(c, f, Err("Unauthorized"))]
                  /\ UNCHANGED teamStorage
           ELSE IF InsertFails(new)
             THEN /\ threads' = [threads EXCEPT ![t] = Done(c, f, Thrown)]
                  /\ UNCHANGED teamStorage
           ELSE /\ threads' = [threads EXCEPT ![t] = Done(c, f, Ok(new))]
                /\ teamStorage' = insert(teamStorage, TheTeam(f).id, new)
        /\ ThreadFrame

ThreadNext ==
    \E t \in Threads :
        \/ \E caller \in Principals, payload \in Payloads : createTeam_find(t, caller, payload)
        \/ createTeam_insert(t)
        \/ \E caller \in Principals, id \in Ids, player \in ThreadPlayers :
                addPlayerToTeam_get(t, caller, id, player)
        \/ addPlayerToTeam_insert(t)

SpecThreads == ThreadInit /\ [][ThreadNext]_vars

(* ------------------------------ properties ----------------------------- *)

\* the operations that check the caller against the stored owner
OwnerOps == {"updateTeam", "deleteTeam", "addPlayerToTeam", "deletePlayerToTeam"}
\* the operations that set updatedAt when they succeed
RosterOps == {"updateTeam", "addPlayerToTeam", "deletePlayerToTeam"}
\* the operations that insert into the store
InsertOps == {"createTeam"} \cup RosterOps

\* a step that is a call of an operation: the clock stands still during a call
IsCall == clock' = clock

Stored == DOMAIN teamStorage

\* C1: updateTeam, deleteTeam, addPlayerToTeam and deletePlayerToTeam called on a
\* stored id by a caller who is not the stored owner return Unauthorized and
\* leave the whole store as it was.
C1_UnauthorizedChangesNothing ==
    [][ ( /\ IsCall
          /\ call'.op \in OwnerOps
          /\ call'.id \in Stored
          /\ teamStorage[call'.id].owner # call'.caller )
        => ( result' = Err("Unauthorized") /\ teamStorage' = teamStorage ) ]_vars

\* a non-owner was refused on a stored team that has a roster and an updatedAt
C1_Witness ==
    /\ call.op \in OwnerOps
    /\ found # {}
    /\ TheTeam(found).owner # call.caller
    /\ TheTeam(found).roster # <<>>
    /\ TheTeam(found).updatedAt # None
    /\ result = Err("Unauthorized")
    /\ teamStorage[call.id] = TheTeam(found)

NamesUnique ==
    \A i, j \in Stored : teamStorage[i].name = teamStorage[j].name => i = j

NameIsStored(name) == \E i \in Stored : teamStorage[i].name = name

\* C2 as stated: no two stored teams share a name, and every createTeam call
\* whose name is the name of a stored team returns DuplicateName and leaves the
\* store unchanged.
C2_AsStated ==
    /\ []NamesUnique
    /\ [][ ( /\ IsCall
             /\ call'.op = "createTeam"
             /\ call'.payload.name.tag = "value"
             /\ NameIsStored(call'.payload.name.v) )
           => ( result' = Err("DuplicateName") /\ teamStorage' = teamStorage ) ]_vars

\* C2 amended: no two stored teams share a name, and a createTeam call that
\* passes validation and whose name is the name of a stored team returns
\* DuplicateName and leaves the store unchanged.
C2_UniqueNames ==
    /\ []NamesUnique
    /\ [][ ( /\ IsCall
             /\ call'.op = "createTeam"
             /\ ~ InvalidPayload(call'.payload)
             /\ NameIsStored(call'.payload.name.v) )
           => ( result' = Err("DuplicateName") /\ teamStorage' = teamStorage ) ]_vars

\* a duplicate name was refused while two teams are stored
C2_Witness ==
    /\ call.op = "createTeam"
    /\ result = Err("DuplicateName")
    /\ NameIsStored(call.payload.name.v)
    /\ Cardinality(Stored) = 2

\* C3: every successful updateTeam, addPlayerToTeam and deletePlayerToTeam
\* stores the team with updatedAt present and equal to the clock of the call.
C3_UpdatedAtIsCallTime ==
    [][ ( /\ IsCall
          /\ call'.op \in RosterOps
          /\ result'.kind = "Ok" )
        => ( /\ call'.id \in DOMAIN teamStorage'
             /\ teamStorage'[call'.id].updatedAt = Some(clock') ) ]_vars

\* C4: with a clock that never decreases, a successful mutation of a stored team
\* leaves its updatedAt present, not before its previous updatedAt, and not
\* before its createdAt.
C4_UpdatedAtMonotonic ==
    [][ ( /\ IsCall
          /\ call'.op \in RosterOps
          /\ result'.kind = "Ok" )
        => ( /\ call'.id \in DOMAIN teamStorage'
             /\ teamStorage'[call'.id].updatedAt # None
             /\ \A new \in teamStorage'[call'.id].updatedAt :
                  /\ new >= teamStorage[call'.id].createdAt
                  /\ \A old \in teamStorage[call'.id].updatedAt : new >= old ) ]_vars

\* C5: while an id stays stored, across updateTeam, addPlayerToTeam,
\* deletePlayerToTeam and createTeam calls, the team stored under it keeps its
\* id, owner, name, sportType and createdAt.
SameIdentity(a, b) ==
    /\ a.id = b.id
    /\ a.owner = b.owner
    /\ a.name = b.name
    /\ a.sportType = b.sportType
    /\ a.createdAt = b.createdAt

C5_IdentityFieldsFixed ==
    [][ call'.op # "deleteTeam"
        => \A i \in Stored :
              i \in DOMAIN teamStorage' /\ SameIdentity(teamStorage[i], teamStorage'[i]) ]_vars

\* C6 as stated: createTeam returns InvalidInput and writes nothing whenever
\* name is empty or absent, sportType is empty or absent, or roster is empty or
\* absent.
C6_AsStated ==
    [][ ( /\ IsCall
          /\ call'.op = "createTeam"
          /\ \/ FalsyString(call'.payload.name)
             \/ FalsyString(call'.payload.sportType)
             \/ call'.payload.roster.tag = "absent"
             \/ call'.payload.roster.v = <<>> )
        => ( result' = Err("InvalidInput") /\ teamStorage' = teamStorage ) ]_vars

\* C6 amended: createTeam returns InvalidInput and writes nothing whenever name
\* is empty or absent, sportType is empty or absent, or roster is absent; an
\* empty roster is no reason for InvalidInput.
C6_InvalidInput ==
    [][ ( IsCall /\ call'.op = "createTeam" )
        => /\ ( \/ FalsyString(call'.payload.name)
                \/ FalsyString(call'.payload.sportType)
                \/ call'.payload.roster.tag = "absent" )
              => ( /\ result' = Err("InvalidInput")
                   /\ teamStorage' = teamStorage
                   /\ writes' = 0 )
           /\ ( /\ ~ FalsyString(call'.payload.name)
                /\ ~ FalsyString(call'.payload.sportType)
                /\ call'.payload.roster = Val(<<>>) )
              => result' # Err("InvalidInput") ]_vars

\* a payload whose only fault is an empty sportType was refused while a team
\* is stored
C6_Witness ==
    /\ call.op = "createTeam"
    /\ call.payload.sportType = Val("")
    /\ ~ FalsyString(call.payload.name)
    /\ result = Err("InvalidInput")
    /\ Stored # {}

HasName(roster, playerName) == \E i \in 1..Len(roster) : roster[i].name = playerName

\* C7: a successful deletePlayerToTeam(id, playerName) stores and returns a
\* roster with no entry named playerName, however many there were.
C7_AllNamedRemoved ==
    ( call.op = "deletePlayerToTeam" /\ result.kind = "Ok" )
    => /\ call.id \in Stored
       /\ ~ HasName(teamStorage[call.id].roster, call.playerName)
       /\ \A t \in result.value : ~ HasName(t.roster, call.playerName)
       /\ result.value # {}

\* the roster read by a successful deletePlayerToTeam held the name twice
C7_Witness ==
    /\ call.op = "deletePlayerToTeam"
    /\ result.kind = "Ok"
    /\ found # {}
    /\ Cardinality({ i \in 1..Len(TheTeam(found).roster) :
                       TheTeam(found).roster[i].name = call.playerName }) >= 2

\* C8: deleteTeam(id) by the owner of a stored team removes exactly that entry
\* and returns the team as it was stored, after which getTeam(id) finds nothing;
\* deleteTeam on an id that is not stored returns NotFound and changes nothing.
C8_DeleteTeam ==
    [][ ( IsCall /\ call'.op = "deleteTeam" )
        => /\ ( call'.id \in Stored /\ teamStorage[call'.id].owner = call'.caller )
              => ( /\ teamStorage' = remove(teamStorage, call'.id)
                   /\ result'.kind = "Ok"
                   /\ result'.value = { teamStorage[call'.id] }
                   /\ get(teamStorage', call'.id) = {} )
           /\ call'.id \notin Stored
              => ( result' = Err("NotFound") /\ teamStorage' = teamStorage ) ]_vars

\* C9: a call that returns an error of any kind leaves the store as it was.
C9_ErrorsChangeNothing ==
    [][ result'.kind = "Err" => teamStorage' = teamStorage ]_vars

\* the owner asked to delete a player the roster does not hold
C9_Witness ==
    /\ call.op = "deletePlayerToTeam"
    /\ result = Err("PlayerNotFound")
    /\ found # {}
    /\ TheTeam(found).roster # <<>>
    /\ teamStorage[call.id] = TheTeam(found)

\* C10: no mutating operation lets a failed insert escape as a thrown fault: it
\* returns StorageError.
C10_InsertFaultReturned ==
    call.op \in InsertOps => result.kind # "Thrown"

ReadOps == {"getTeam", "getAllTeams"}

\* what a lookup of id in the store as it stands answers
Lookup(id) ==
    IF id \in Stored THEN Ok(teamStorage[id]) ELSE Err("NotFound")

\* C11: getTeam and getAllTeams never change the store, and what getTeam(id)
\* returned is what the store holds under id for as long as no operation has run
\* since, so a second getTeam(id) with no mutation in between returns the same.
C11_ReadsArePure ==
    /\ [][ ( IsCall /\ call'.op \in ReadOps ) => teamStorage' = teamStorage ]_vars
    /\ []( call.op = "getTeam" => result = Lookup(call.id) )

\* getTeam found a team that has been mutated, while another team is stored
C11_Witness ==
    /\ call.op = "getTeam"
    /\ result.kind = "Ok"
    /\ \E t \in result.value : t.roster # <<>> /\ t.id = call.id
    /\ Cardinality(Stored) = 2

\* C12: every operation makes at most one read and at most one write against
\* the store per call, createTeam's id generation included.
C12_OneReadOneWrite ==
    reads <= 1 /\ writes <= 1

\* C13: a successful createTeam stores the new team under an id that was not
\* stored before: one more team is stored, every team stored before is
\* unchanged, the new team is owned by the caller, created at the call's clock
\* value and has no updatedAt; whichever id the generator returns.
C13_CreateStoresFresh ==
    [][ ( IsCall /\ call'.op = "createTeam" /\ result'.kind = "Ok" )
        => \E t \in result'.value :
              /\ t.id \notin Stored
              /\ Cardinality(DOMAIN teamStorage') = Cardinality(Stored) + 1
              /\ \A i \in Stored : i \in DOMAIN teamStorage' /\ teamStorage'[i] = teamStorage[i]
              /\ teamStorage'[t.id] = t
              /\ t.owner = call'.caller
              /\ t.createdAt = clock'
              /\ t.updatedAt = None ]_vars

C15_DeletePlayerCheckOrder ==
    [][ ( IsCall /\ call'.op = "deletePlayerToTeam" )
        => /\ call'.id \notin Stored => result' = Err("NotFound")
           /\ ( call'.id \in Stored /\ teamStorage[call'.id].owner # call'.caller )
              => result' = Err("Unauthorized")
           /\ result' = Err("PlayerNotFound")
              <=> ( /\ call'.id \in Stored
                    /\ teamStorage[call'.id].owner = call'.caller
                    /\ ~ HasName(teamStorage[call'.id].roster, call'.playerName) )
           /\ result' = Err("PlayerNotFound")
              => teamStorage'[call'.id] = teamStorage[call'.id] ]_vars

\* a non-owner asked to delete a name the roster does not hold, and was told
\* Unauthorized
C15_Witness ==
    /\ call.op = "deletePlayerToTeam"
    /\ result = Err("Unauthorized")
    /\ found # {}
    /\ TheTeam(found).roster # <<>>
    /\ ~ HasName(TheTeam(found).roster, call.playerName)

\* C17: a successful updateTeam, addPlayerToTeam or deletePlayerToTeam changes
\* only the roster and updatedAt of the team it names, and a successful
\* deleteTeam removes only the entry it names; every other stored team stays.
C17_OnlyTheNamedTeam ==
    [][ ( IsCall /\ call'.op \in OwnerOps /\ result'.kind = "Ok" )
        => /\ \A i \in Stored \ {call'.id} :
                i \in DOMAIN teamStorage' /\ teamStorage'[i] = teamStorage[i]
           /\ call'.op \in RosterOps
              => /\ DOMAIN teamStorage' = Stored
                 /\ SameIdentity(teamStorage[call'.id], teamStorage'[call'.id])
           /\ call'.op = "deleteTeam"
              => DOMAIN teamStorage' = Stored \ {call'.id} ]_vars

\* a team was mutated after its creation time while another team is stored
C17_Witness ==
    /\ call.op \in RosterOps
    /\ result.kind = "Ok"
    /\ Cardinality(Stored) = 2
    /\ \E t \in found : t.createdAt < clock

C19_NameFreedByDelete ==
    [][ ( /\ call.op = "deleteTeam" /\ result.kind = "Ok"
          /\ IsCall /\ call'.op = "createTeam"
          /\ ~ InvalidPayload(call'.payload)
          /\ RosterSize(call'.payload.roster.v) <= Capacity
          /\ \E d \in found : d.name = call'.payload.name.v )
        => /\ result'.kind = "Ok"
           /\ \A t \in result'.value :
                /\ t.owner = call'.caller
                /\ t.name = call'.payload.name.v
                /\ t.id \notin Stored
                /\ teamStorage'[t.id] = t ]_vars

\* two calls of addPlayerToTeam on the same team have both returned Ok
BothAdded(a, b) ==
    /\ a # b
    /\ threads[a].pc = "done" /\ threads[b].pc = "done"
    /\ threads[a].call.op = "addPlayerToTeam" /\ threads[b].call.op = "addPlayerToTeam"
    /\ threads[a].result.kind = "Ok" /\ threads[b].result.kind = "Ok"
    /\ threads[a].call.id = threads[b].call.id

\* ... and the stored roster is no longer than one add to what either read
LostAdd ==
    \E a, b \in Threads :
        /\ BothAdded(a, b)
        /\ threads[a].call.id \in Stored
        /\ \A t \in {a, b} :
              Len(teamStorage[threads[a].call.id].roster)
                 <= Len(TheTeam(threads[t].seen).roster) + 1

\* two calls of createTeam with the same name have both returned Ok
BothCreated(a, b) ==
    /\ a # b
    /\ threads[a].pc = "done" /\ threads[b].pc = "done"
    /\ threads[a].call.op = "createTeam" /\ threads[b].call.op = "createTeam"
    /\ threads[a].result.kind = "Ok" /\ threads[b].result.kind = "Ok"
    /\ threads[a].call.payload.name.v = threads[b].call.payload.name.v

\* C16: when each call runs to completion before the next starts, no two
\* stored teams share a name, no two createTeam calls with one name both
\* succeed and no successful add is lost; when the read and the write are
\* separate steps, two successful adds that read the same team leave its roster
\* as what they read followed by one of the two players only, and two
\* createTeam calls with one name that both succeeded each left a team of that
\* name stored under the id it returned.
C16_LostUpdates ==
    /\ exclusive => /\ NamesUnique
                    /\ ~ LostAdd
                    /\ ~ \E a, b \in Threads : BothCreated(a, b)
    /\ \A a, b \in Threads :
          BothCreated(a, b)
          => \A t \in {a, b} : \A team \in threads[t].result.value :
                /\ team.id \in Stored
                /\ teamStorage[team.id].name = threads[a].call.payload.name.v
    /\ \A a, b \in Threads :
          ( BothAdded(a, b) /\ threads[a].seen = threads[b].seen )
          => \E p \in threads[a].call.player \cup threads[b].call.player :
                teamStorage[threads[a].call.id].roster
                    = Append(TheTeam(threads[a].seen).roster, p)

\* without exclusion, two createTeam calls with one name both succeeded and two
\* stored teams have that name
C16_Witness ==
    /\ ~ exclusive
    /\ \A t \in Threads :
          /\ threads[t].pc = "done"
          /\ threads[t].call.op = "createTeam"
          /\ threads[t].result.kind = "Ok"
    /\ \E i, j \in Stored :
          /\ i # j
          /\ teamStorage[i].name = teamStorage[j].name
          /\ \A t \in Threads : threads[t].call.payload.name.v = teamStorage[i].name

====
